---- MODULE Spec2Model ----
(***************************************************************************)
(* The DensePose HTTP service (server/densepose-service.py) and its mock   *)
(* (server/densepose-mock.py).                                             *)
(*                                                                         *)
(* Strings are sequences of tokens.  A token stands for a piece of text:   *)
(*   "data:image"  the ten characters  data:image                          *)
(*   ","           a comma                                                 *)
(*   "IMG"         four base64 characters that encode a parseable image    *)
(*   "JUNK"        four base64 characters that encode bytes no image       *)
(*                 codec accepts                                           *)
(*   "x"           one base64 character                                    *)
(* Python lists indexed from 0 are functions on 0..n-1.  The floats of the *)
(* mock are kept as integer numerators over UVScale.                       *)
(***************************************************************************)
EXTENDS Integers, Sequences, FiniteSets, TLC

\* ---------------------------------------------------------------- bounds
NumThreads == 2
MaxImageLen == 3
MaxInstances == 1

\* ------------------------------------------------------ program constants
GridSize == 256
UVPeriod == 100
UVScale == 100

Threads == 1..NumThreads
None == 0
Msgs == {"m1", "m2"}
Tokens == {"data:image", ",", "IMG", "JUNK", "x"}

VARIABLES proc, predictor, constructions, thr, mockReq, mockResp

vars == <<proc, predictor, constructions, thr, mockReq, mockResp>>
realVars == <<proc, predictor, constructions, thr>>
mockVars == <<mockReq, mockResp>>

\* ------------------------------------------------------------ requests
RECURSIVE StringsUpTo(_)
StringsUpTo(n) ==
    IF n = 0 THEN {<<>>}
    ELSE LET shorter == StringsUpTo(n - 1)
         IN  shorter \cup {Append(s, c) : s \in {q \in shorter : Len(q) = n - 1}, c \in Tokens}

\* A request body: not sent as JSON ("none"), sent as JSON but empty or
\* unparseable ("invalid"), or a JSON object with some keys.
NoJson == [json |-> "none", keys |-> {}, image |-> <<>>]
InvalidJson == [json |-> "invalid", keys |-> {}, image |-> <<>>]
EmptyObject == [json |-> "object", keys |-> {}, image |-> <<>>]
OtherObject == [json |-> "object", keys |-> {"other"}, image |-> <<>>]
ImageObject(s) == [json |-> "object", keys |-> {"image"}, image |-> s]

AllBodies == {NoJson, InvalidJson, EmptyObject, OtherObject} \cup {ImageObject(s) : s \in StringsUpTo(MaxImageLen)}

\* The bodies the concurrent specification draws from: one of each way the
\* handler can leave (no JSON, no image, undecodable image, decodable image).
SampleBodies == {InvalidJson, EmptyObject, ImageObject(<<"x">>), ImageObject(<<"IMG">>)}

\* ------------------------------------------------------------ responses
NoResp == [status |-> 0, body |-> [none |-> TRUE]]
NoExc == [kind |-> "none", msg |-> ""]
NotInvoked == -1

\* jsonify({"error": prefix + str(e)}), status
ErrorResp(status, prefix, msg) == [status |-> status, body |-> [error |-> <<prefix, msg>>]]
\* jsonify(results): Flask's default status
OkResp(results) == [status |-> 200, body |-> results]

\* ------------------------------------------------------------ str methods
StartsWithDataImage(s) == Len(s) >= 1 /\ s[1] = "data:image"

\* s.split(','): the list of the pieces between the commas
RECURSIVE Split(_)
Split(s) ==
    IF \A k \in 1..Len(s) : s[k] # ","
    THEN <<s>>
    ELSE LET k == CHOOSE i \in 1..Len(s) : s[i] = "," /\ \A j \in 1..(i - 1) : s[j] # ","
         IN  <<SubSeq(s, 1, k - 1)>> \o Split(SubSeq(s, k + 1, Len(s)))

\* ------------------------------------------------------------ base64
\* The base64-alphabet characters of a token; b64decode (validate=False)
\* discards every other character (':' and ',').
B64Chars(tok) ==
    CASE tok = "data:image" -> <<"c", "c", "c", "c", "c", "c", "c", "c", "c">>
      [] tok = ","          -> <<>>
      [] tok = "IMG"        -> <<"I1", "I2", "I3", "I4">>
      [] tok = "JUNK"       -> <<"c", "c", "c", "c">>
      [] tok = "x"          -> <<"c">>

RECURSIVE B64Stream(_)
B64Stream(s) == IF s = <<>> THEN <<>> ELSE B64Chars(Head(s)) \o B64Stream(Tail(s))

\* Four characters decode to one group of bytes.
RECURSIVE DecodeQuads(_)
DecodeQuads(cs) ==
    IF cs = <<>> THEN <<>>
    ELSE <<IF SubSeq(cs, 1, 4) = <<"I1", "I2", "I3", "I4">> THEN "img" ELSE "junk">>
         \o DecodeQuads(SubSeq(cs, 5, Len(cs)))

\* base64.b64decode(s): the bytes, or binascii.Error when the characters do
\* not fill whole quads.
B64Decode(s) ==
    LET cs == B64Stream(s)
    IN  IF Len(cs) % 4 # 0
        THEN [ok |-> FALSE, bytes |-> <<>>]
        ELSE [ok |-> TRUE, bytes |-> DecodeQuads(cs)]

\* cv2.imdecode(buf): "image", "none" (returns None) or "raise" (cv2.error).
\* An empty buffer gives None or an assertion failure, by OpenCV version; a
\* codec reads the image at the start of the buffer.
CvModes == {"none", "raise"}
ImDecode(bytes, cv) ==
    IF bytes = <<>> THEN cv
    ELSE IF bytes[1] = "img" THEN "image" ELSE "none"

\* request.get_json(): the object, None, or a raised HTTP exception.  A JSON
\* body that does not parse raises BadRequest; a body not sent as JSON gives
\* None or raises, by Flask version.
GetJsonModes == {"none", "raise"}
GetJson(body, gj) ==
    CASE body.json = "none"    -> gj
      [] body.json = "invalid" -> "raise"
      [] body.json = "object"  -> "object"

\* ------------------------------------------------------------ inference
\* What predictor(image) does: raises, or returns instances.
Outputs ==
    [raises : {TRUE}, msg : Msgs, has_dp : {FALSE}, n : {0}, has_boxes : {FALSE}, has_scores : {FALSE}]
    \cup
    [raises : {FALSE}, msg : {""}, has_dp : {FALSE}, n : {0}, has_boxes : {FALSE}, has_scores : {FALSE}]
    \cup
    [raises : {FALSE}, msg : {""}, has_dp : {TRUE}, n : 0..MaxInstances,
     has_boxes : BOOLEAN, has_scores : BOOLEAN]

InstanceResult(out, i) ==
    [ body_parts    |-> <<"fine_segm", i>>,
      u_coordinates |-> <<"u", i>>,
      v_coordinates |-> <<"v", i>>,
      bbox          |-> IF out.has_boxes THEN <<"box", i>> ELSE <<>>,
      score         |-> IF out.has_scores THEN <<"score", i>> ELSE <<"score", "0.0">> ]

\* predictor(image_data): the outputs, or the exception raised.  Calling
\* None raises TypeError.
Predict(pred, out) ==
    IF pred = None
    THEN [raised |-> TRUE, msg |-> "'NoneType' object is not callable"]
    ELSE [raised |-> out.raises, msg |-> out.msg]

NoResults == [none |-> TRUE]
NoPredictions == [error |-> <<"No DensePose predictions available for this image", "">>]

\* A process_image that swallows the predictor's exception.
ProcessImageSwallows(pred, out) ==
    IF Predict(pred, out).raised \/ ~out.has_dp
    THEN [ok |-> TRUE, msg |-> "", results |-> NoPredictions]
    ELSE LET results == [i \in 0..(out.n - 1) |-> InstanceResult(out, i)]
         IN  [ok |-> TRUE, msg |-> "",
              results |-> [num_instances |-> Cardinality(DOMAIN results), instances |-> results]]

\* process_image(img): the returned dict, or the exception raised.
ProcessImage(pred, out) ==
    IF Predict(pred, out).raised
    THEN [ok |-> FALSE, msg |-> Predict(pred, out).msg, results |-> NoResults]
    ELSE IF ~out.has_dp
    THEN [ok |-> TRUE, msg |-> "", results |-> NoPredictions]
    ELSE LET results == [i \in 0..(out.n - 1) |-> InstanceResult(out, i)]
         IN  [ok |-> TRUE, msg |-> "",
              results |-> [num_instances |-> Cardinality(DOMAIN results), instances |-> results]]

\* The outputs the concurrent specification draws from.
SampleOutputs ==
    {out \in Outputs : out.raises \/ ~out.has_dp \/ (out.has_boxes /\ out.has_scores)}

\* ------------------------------------------------------------ the handler
Caught(kind, msg) ==
    [resp |-> ErrorResp(500, "Error processing image: ", msg),
     exc |-> [kind |-> kind, msg |-> msg], inferOn |-> NotInvoked]

MissingImage ==
    [resp |-> ErrorResp(400, "Request must include 'image' field with base64-encoded image data", ""),
     exc |-> NoExc, inferOn |-> NotInvoked]

\* analyze_pose from request.get_json() on: the try block and its except.
AnalyzeBody(body, pred, gj, cv, out) ==
    LET data == GetJson(body, gj) IN
    IF data = "raise" THEN Caught("json", "400 Bad Request")
    ELSE IF data = "none" \/ body.keys = {} \/ "image" \notin body.keys THEN MissingImage
    ELSE
    LET pieces == Split(body.image) IN
    IF StartsWithDataImage(body.image) /\ Len(pieces) < 2
    THEN Caught("split", "list index out of range")
    ELSE
    LET image_data == IF StartsWithDataImage(body.image) THEN pieces[2] ELSE body.image
        dec == B64Decode(image_data)
    IN
    IF ~dec.ok THEN Caught("b64", "Incorrect padding")
    ELSE
    LET img == ImDecode(dec.bytes, cv) IN
    IF img = "raise" THEN Caught("cv", "OpenCV assertion failed")
    ELSE IF img = "none"
    THEN [resp |-> ErrorResp(400, "Failed to decode image", ""), exc |-> NoExc,
          inferOn |-> NotInvoked]
    ELSE
    LET r == ProcessImage(pred, out)
        exc == IF Predict(pred, out).raised
               THEN [kind |-> "infer", msg |-> Predict(pred, out).msg]
               ELSE NoExc
    IN
    IF ~r.ok
    THEN [resp |-> ErrorResp(500, "Error processing image: ", r.msg), exc |-> exc,
          inferOn |-> pred]
    ELSE [resp |-> OkResp(r.results), exc |-> exc, inferOn |-> pred]

\* ------------------------------------------------------------ state
IdleThread == [pc |-> "idle", body |-> NoJson, resp |-> NoResp, exc |-> NoExc,
               inferOn |-> NotInvoked]

Init ==
    /\ proc = "boot"
    /\ predictor = None
    /\ constructions = 0
    /\ thr = [t \in Threads |-> IdleThread]
    /\ mockReq = NoJson
    /\ mockResp = NoResp

\* setup_densepose_predictor(): builds a predictor and stores it in the global.
SetupDenseposePredictor ==
    /\ constructions' = constructions + 1
    /\ predictor' = constructions + 1

\* main(): the predictor is built, then app.run serves.
MainStart ==
    /\ proc = "boot"
    /\ SetupDenseposePredictor
    /\ proc' = "serving"
    /\ UNCHANGED <<thr, mockVars>>

\* main(): the setup raises, the process exits.
MainExit ==
    /\ proc = "boot"
    /\ proc' = "exited"
    /\ UNCHANGED <<predictor, constructions, thr, mockVars>>

\* The module's app is served by a WSGI host: main() never runs.
AppServed ==
    /\ proc = "boot"
    /\ proc' = "serving"
    /\ UNCHANGED <<predictor, constructions, thr, mockVars>>

\* An analyze_pose that goes on without testing the global.
BeginNoTest(t, body) ==
    /\ proc = "serving"
    /\ thr[t].pc = "idle"
    /\ thr' = [thr EXCEPT ![t] = [IdleThread EXCEPT !.pc = "body", !.body = body]]
    /\ UNCHANGED <<proc, predictor, constructions, mockVars>>

\* analyze_pose is entered and tests the global.
Begin(t, body) ==
    /\ proc = "serving"
    /\ thr[t].pc = "idle"
    /\ thr' = [thr EXCEPT ![t] = [IdleThread EXCEPT
                  !.pc = IF predictor = None THEN "setup" ELSE "body",
                  !.body = body]]
    /\ UNCHANGED <<proc, predictor, constructions, mockVars>>

\* The lazy setup returns.
SetupOk(t) ==
    /\ thr[t].pc = "setup"
    /\ SetupDenseposePredictor
    /\ thr' = [thr EXCEPT ![t].pc = "body"]
    /\ UNCHANGED <<proc, mockVars>>

\* The lazy setup raises: the handler answers 500.
SetupFail(t, msg) ==
    /\ thr[t].pc = "setup"
    /\ thr' = [thr EXCEPT ![t] = [@ EXCEPT
                  !.pc = "done",
                  !.resp = ErrorResp(500, "Failed to initialize DensePose predictor: ", msg),
                  !.exc = [kind |-> "init", msg |-> msg]]]
    /\ UNCHANGED <<proc, predictor, constructions, mockVars>>

\* The rest of the handler.
Handle(t, gj, cv, out) ==
    /\ thr[t].pc = "body"
    /\ LET r == AnalyzeBody(thr[t].body, predictor, gj, cv, out)
       IN  thr' = [thr EXCEPT ![t] = [@ EXCEPT
                      !.pc = "done", !.resp = r.resp, !.exc = r.exc, !.inferOn = r.inferOn]]
    /\ UNCHANGED <<proc, predictor, constructions, mockVars>>

\* The response is sent; the worker takes the next request.
Return(t) ==
    /\ thr[t].pc = "done"
    /\ thr' = [thr EXCEPT ![t] = IdleThread]
    /\ UNCHANGED <<proc, predictor, constructions, mockVars>>

Serve(T, B, O) ==
    \E t \in T :
        \/ \E body \in B : Begin(t, body)
        \/ SetupOk(t)
        \/ \E msg \in Msgs : SetupFail(t, msg)
        \/ \E gj \in GetJsonModes, cv \in CvModes, out \in O : Handle(t, gj, cv, out)
        \/ Return(t)

\* Concurrent workers, a sample of requests and outputs.
Next == MainStart \/ MainExit \/ AppServed \/ Serve(Threads, SampleBodies, SampleOutputs)

Spec == Init /\ [][Next]_vars

\* One worker, every request body and every output within the bounds.
NextSeq == MainStart \/ MainExit \/ AppServed \/ Serve({1}, AllBodies, Outputs)

SeqSpec == Init /\ [][NextSeq]_vars

\* ------------------------------------------------------------ the mock
\* np.zeros((256, 256)).tolist(): a list of rows
Zeros == [i \in 0..(GridSize - 1) |-> [j \in 0..(GridSize - 1) |-> 0]]

\* [x]: the list whose only element is x
ListOf(x) == [k \in {0} |-> x]

\* for i in range(i0, i1): for j in range(j0, j1): grid[i][j] = val
FillRange(grid, i0, i1, j0, j1, val) ==
    [i \in DOMAIN grid |-> [j \in DOMAIN grid[i] |->
        IF i \in i0..(i1 - 1) /\ j \in j0..(j1 - 1) THEN val ELSE grid[i][j]]]

\* A torso loop that runs one row too far.
TorsoOneRowMore(grid) == FillRange(grid, 100, 151, 100, 200, 1)

Torso(grid) == FillRange(grid, 100, 150, 100, 200, 1)
LeftArm(grid) == FillRange(grid, 80, 100, 100, 130, 10)
RightArm(grid) == FillRange(grid, 150, 170, 100, 130, 11)

\* The grid that the local body_parts names, after the three loops.
MockBodyParts == RightArm(LeftArm(Torso(Zeros)))

\* U taken from the column instead of the row.
MockUFromColumn(body_parts, u_coords) ==
    [i \in DOMAIN u_coords |-> [j \in DOMAIN u_coords[i] |->
        IF i < GridSize /\ j < GridSize /\ body_parts[i][j] > 0
        THEN j % UVPeriod ELSE u_coords[i][j]]]

\* u_coords[i][j] = (i % 100) / 100.0 where body_parts[i][j] > 0
MockU(body_parts, u_coords) ==
    [i \in DOMAIN u_coords |-> [j \in DOMAIN u_coords[i] |->
        IF i < GridSize /\ j < GridSize /\ body_parts[i][j] > 0
        THEN i % UVPeriod ELSE u_coords[i][j]]]

\* v_coords[i][j] = (j % 100) / 100.0 where body_parts[i][j] > 0
MockV(body_parts, v_coords) ==
    [i \in DOMAIN v_coords |-> [j \in DOMAIN v_coords[i] |->
        IF i < GridSize /\ j < GridSize /\ body_parts[i][j] > 0
        THEN j % UVPeriod ELSE v_coords[i][j]]]

\* mock_result as it is when jsonify receives it.
MockResult ==
    [ num_instances |-> 1,
      instances |-> ListOf(
        [ body_parts    |-> ListOf(MockBodyParts),
          u_coordinates |-> ListOf(MockU(MockBodyParts, Zeros)),
          v_coordinates |-> ListOf(MockV(MockBodyParts, Zeros)),
          bbox          |-> <<50, 50, 200, 400>>,
          score         |-> "0.98" ]) ]

\* analyze_pose of the mock.
MockAnalyzePose(body, gj) ==
    LET data == GetJson(body, gj) IN
    IF data = "raise" THEN ErrorResp(500, "Error processing image: ", "400 Bad Request")
    ELSE IF data = "none" \/ body.keys = {} \/ "image" \notin body.keys
    THEN ErrorResp(400, "Request must include 'image' field with base64-encoded image data", "")
    ELSE OkResp(MockResult)

\* A request arrives at the idle mock and is answered.
MockAnalyze(body, gj) ==
    /\ mockResp = NoResp
    /\ mockReq' = body
    /\ mockResp' = MockAnalyzePose(body, gj)
    /\ UNCHANGED realVars

\* The response is sent; the mock keeps nothing of the exchange.
MockReturn ==
    /\ mockResp # NoResp
    /\ mockReq' = NoJson
    /\ mockResp' = NoResp
    /\ UNCHANGED realVars

MockNext == MockReturn \/ \E body \in AllBodies, gj \in GetJsonModes : MockAnalyze(body, gj)

MockSpec == Init /\ [][MockNext]_vars

\* ------------------------------------------------------------ properties
Done(t) == thr[t].pc = "done"
HasNoImage(body) == body.json # "object" \/ "image" \notin body.keys
HasImage(body) == ~HasNoImage(body)
IsErrorBody(b) == DOMAIN b = {"error"}

\* The text after the data-URL header (through the first comma), or the
\* whole value when there is no header; Absent when the header has no comma.
Absent == <<"absent">>
Payload(s) ==
    IF ~StartsWithDataImage(s) THEN s
    ELSE IF \A k \in 1..Len(s) : s[k] # "," THEN Absent
    ELSE LET k == CHOOSE i \in 1..Len(s) : s[i] = "," /\ \A j \in 1..(i - 1) : s[j] # ","
         IN  SubSeq(s, k + 1, Len(s))

Parseable(bytes) == bytes # <<>> /\ bytes[1] = "img"
Undecodable(s) ==
    \/ Payload(s) = Absent
    \/ ~B64Decode(Payload(s)).ok
    \/ ~Parseable(B64Decode(Payload(s)).bytes)

\* C1: a POST /analyze whose JSON body is absent, empty or without 'image'
\* is answered 400 with an error body, by the real and by the mock backend,
\* whatever the state of the predictor.
C1_MissingImageIs400 ==
    /\ \A t \in Threads :
          Done(t) /\ HasNoImage(thr[t].body)
             => thr[t].resp.status = 400 /\ IsErrorBody(thr[t].resp.body)
    /\ mockResp # NoResp /\ HasNoImage(mockReq)
          => mockResp.status = 400 /\ IsErrorBody(mockResp.body)

\* C2: a POST /analyze with an 'image' that cannot be base64-decoded, or
\* whose bytes are no parseable image, is answered 400, never 200 or 500, by
\* the real and by the mock backend.
C2_UndecodableIs400 ==
    /\ \A t \in Threads :
          Done(t) /\ HasImage(thr[t].body) /\ Undecodable(thr[t].body.image)
             => thr[t].resp.status = 400
    /\ mockResp # NoResp /\ HasImage(mockReq) /\ Undecodable(mockReq.image)
          => mockResp.status = 400

\* An AnalysisResponse: num_instances and instances, the one the length of
\* the other.
IsAnalysisResponse(b) ==
    /\ {"num_instances", "instances"} \subseteq DOMAIN b
    /\ b.num_instances = Cardinality(DOMAIN b.instances)

\* C3: every 200 response of POST /analyze, of either backend and for every
\* model output, has num_instances and instances, with num_instances the
\* length of instances.
C3_OkIsAnalysisResponse ==
    /\ \A t \in Threads :
          Done(t) /\ thr[t].resp.status = 200 => IsAnalysisResponse(thr[t].resp.body)
    /\ mockResp.status = 200 => IsAnalysisResponse(mockResp.body)

\* The grids of the mock's single instance: the one element of each list.
MockOk == mockResp.status = 200
MockInstance == mockResp.body.instances[0]
BodyPartsGrid == MockInstance.body_parts[0]
UGrid == MockInstance.u_coordinates[0]
VGrid == MockInstance.v_coordinates[0]
Cells == 0..255

InTorso(r, c) == r \in 100..149 /\ c \in 100..199
InLeftArm(r, c) == r \in 80..99 /\ c \in 100..129
InRightArm(r, c) == r \in 150..169 /\ c \in 100..129

\* The grid that is 1 on the torso, 10 on the left arm, 11 on the right arm
\* and 0 elsewhere, and the U and V grids that the claim derives from it.
ExpectedParts ==
    [r \in Cells |-> [c \in Cells |->
        IF InTorso(r, c) THEN 1
        ELSE IF InLeftArm(r, c) THEN 10
        ELSE IF InRightArm(r, c) THEN 11
        ELSE 0]]
ExpectedU == [r \in Cells |-> [c \in Cells |-> IF ExpectedParts[r][c] > 0 THEN r % 100 ELSE 0]]
ExpectedV == [r \in Cells |-> [c \in Cells |-> IF ExpectedParts[r][c] > 0 THEN c % 100 ELSE 0]]

\* The three regions share no cell.
RegionsDisjoint ==
    \A r \in Cells, c \in Cells :
        /\ ~(InTorso(r, c) /\ InLeftArm(r, c))
        /\ ~(InTorso(r, c) /\ InRightArm(r, c))
        /\ ~(InLeftArm(r, c) /\ InRightArm(r, c))

\* C4: in every successful mock response the body-part grid is 1 exactly
\* on rows 100..149 x columns 100..199, 10 exactly on rows 80..99 x columns
\* 100..129, 11 exactly on rows 150..169 x columns 100..129, and 0 elsewhere;
\* the regions do not overlap.
C4_MockBodyPartRegions ==
    MockOk => BodyPartsGrid = ExpectedParts /\ RegionsDisjoint

C4_Witness ==
    /\ MockOk
    /\ BodyPartsGrid[120][150] = 1
    /\ BodyPartsGrid[90][110] = 10
    /\ BodyPartsGrid[160][110] = 11
    /\ BodyPartsGrid[0][0] = 0

\* Every expected U and V numerator n has 0 <= n/UVScale < 1, and n/UVScale
\* is (row mod 100)/100 or (col mod 100)/100.
ExpectedUVInUnitRange ==
    \A r \in Cells, c \in Cells :
        /\ 0 <= ExpectedU[r][c] /\ ExpectedU[r][c] < UVScale
        /\ 0 <= ExpectedV[r][c] /\ ExpectedV[r][c] < UVScale
        /\ ExpectedParts[r][c] > 0 =>
              /\ ExpectedU[r][c] * 100 = (r % 100) * UVScale
              /\ ExpectedV[r][c] * 100 = (c % 100) * UVScale

\* C5: in every successful mock response, where body_parts > 0 the U value
\* is (row mod 100)/100 and the V value (col mod 100)/100, where body_parts
\* = 0 both are 0, and every U and V lies in [0, 1).  A stored value n
\* stands for n/UVScale.  The response's body_parts is the grid of C4, and
\* its U and V are the grids derived from that grid.
C5_MockUV ==
    MockOk =>
        /\ BodyPartsGrid = ExpectedParts
        /\ UGrid = ExpectedU
        /\ VGrid = ExpectedV
        /\ ExpectedUVInUnitRange

C5_Witness ==
    /\ MockOk
    /\ BodyPartsGrid[120][150] > 0
    /\ UGrid[120][150] = 20
    /\ VGrid[120][150] = 50
    /\ UGrid[160][110] = 60
    /\ VGrid[160][110] = 10

\* C6: in the real backend, when the model initialization raises during a
\* request, or the inference call raises, the response is 500 and its error
\* body carries the exception's message.
C6_BackendFailureIs500 ==
    \A t \in Threads :
        Done(t) /\ thr[t].exc.kind \in {"init", "infer"} =>
            /\ thr[t].resp.status = 500
            /\ IsErrorBody(thr[t].resp.body)
            /\ thr[t].resp.body.error[2] = thr[t].exc.msg

C6_Witness ==
    \E t, u \in Threads :
        /\ Done(t) /\ thr[t].exc = [kind |-> "init", msg |-> "m1"] /\ thr[t].resp.status = 500
        /\ Done(u) /\ thr[u].exc = [kind |-> "infer", msg |-> "m2"] /\ thr[u].resp.status = 500

\* A grid of 256 rows of 256 numbers.
IsSquareGrid(g) ==
    /\ DOMAIN g = Cells
    /\ \A r \in Cells : DOMAIN g[r] = Cells
    /\ \A r \in Cells, c \in Cells : g[r][c] \in Int

\* C7: in every successful mock response body_parts, u_coordinates and
\* v_coordinates are each 256 rows of 256 scalars: grid[row][col] is a number.
C7_MockGridsAre2D ==
    MockOk =>
        /\ IsSquareGrid(MockInstance.body_parts)
        /\ IsSquareGrid(MockInstance.u_coordinates)
        /\ IsSquareGrid(MockInstance.v_coordinates)

\* The responses a request with this image can receive in the current state.
Answers(s) ==
    { AnalyzeBody(ImageObject(s), predictor, gj, cv, out).resp :
        gj \in GetJsonModes, cv \in CvModes, out \in Outputs }

\* C8: in the real backend a data-URL header is transparent (the image
\* header+P is answered as P alone is), and an image that starts with
\* data:image but holds no comma is answered 400.
C8_DataUrlHeader ==
    \A t \in Threads :
        Done(t) /\ HasImage(thr[t].body) /\ StartsWithDataImage(thr[t].body.image)
                /\ thr[t].exc.kind # "init" =>
            IF Payload(thr[t].body.image) = Absent
            THEN thr[t].resp.status = 400
            ELSE thr[t].resp \in Answers(Payload(thr[t].body.image))

\* C9: in the real backend the predictor is constructed at most once in the
\* life of the process, and the global, once set, holds that one instance.
C9_SinglePredictor ==
    /\ constructions <= 1
    /\ predictor \in {None, 1}

\* C10: in the real backend the global is set only by a construction that
\* returned; a lazy initialization that raises leaves it as it was; a
\* request that finds it unset attempts the initialization; and inference
\* is never invoked while it is unset.
C10_Step ==
    /\ predictor' # predictor =>
          /\ constructions' = constructions + 1
          /\ predictor' = constructions'
          /\ \/ proc = "boot" /\ proc' = "serving"
             \/ \E t \in Threads : thr[t].pc = "setup" /\ thr'[t].pc = "body"
    /\ \A t \in Threads :
          /\ thr[t].pc = "setup" /\ thr'[t].exc.kind = "init" =>
                predictor' = predictor /\ constructions' = constructions
          /\ thr[t].pc = "idle" /\ thr'[t].pc # "idle" /\ predictor = None =>
                thr'[t].pc = "setup"
          /\ thr'[t].inferOn # None

C10_HandleSetOnlyBySuccess == [][C10_Step]_vars

C10_Witness ==
    \E t, u \in Threads :
        /\ Done(t) /\ thr[t].exc.kind = "init"
        /\ predictor = None
        /\ thr[u].pc = "setup"

====
